---------------------------- MODULE Spec2Model ----------------------------
(***************************************************************************)
(* The KNOCK command handler of ircd-hybrid (modules/m_knock.c).           *)
(*                                                                         *)
(* The state is what m_knock reads and writes: the clock CurrentTime, the  *)
(* two ConfigChannel delays, the channel hash table (mode, key, limit,     *)
(* members, bans, last_knock) and each local client's last_knock.  What    *)
(* one invocation sends (numerics, the operator notice, the server         *)
(* propagation) and returns is recorded, together with the arguments of    *)
(* the invocation and the state it started from.                           *)
(***************************************************************************)
EXTENDS Integers, Sequences, FiniteSets

\* ------------------------------------------------------------- bounds
MaxTime == 4
MaxDelay == 2
MaxLimit == 2
OnceMaxTime == 1

\* ------------------------------------------------------------ universe
NULL == "NULL"
me == "irc.me"
LocalClients == {"u1", "u2"}
RemoteClients == {"r1"}
Clients == LocalClients \cup RemoteClients
\* the server link a remote client's messages arrive on
Uplink == "s1"
ChanNames == {"#a", "#b"}
Params == {"", "#a", "#b", "#none"}
Keys == {"", "k"}
ModeFlags == {"MODE_INVITEONLY", "MODE_PRIVATE"}
NoTime == 0 - 1
NoRet == 0 - 1

VARIABLES
  CurrentTime,    \* the daemon's clock
  ConfigChannel,  \* [knock_delay, knock_delay_channel]
  channels,       \* channel name -> struct Channel
  localClient,    \* local client -> [last_knock]
  call,           \* arguments of the latest invocation of m_knock
  pre,            \* localClient, channels and hist as that invocation found them
  sent,           \* numerics sent by the latest invocation (sendto_one_numeric)
  notices,        \* sendto_channel_local calls of the latest invocation
  relayed,        \* sendto_server calls of the latest invocation
  ret,            \* its return value
  hist,           \* when each client last got RPL_KNOCKDLVR, and when each
                  \* channel's operators were last notified
  dispatch,       \* the handler the parser chose for the latest KNOCK
  net,            \* the servers of the network and the KNOCK travelling it
  registry        \* the daemon's command, capability and ISUPPORT tables

vars == <<CurrentTime, ConfigChannel, channels, localClient, call, pre,
          sent, notices, relayed, ret, hist, dispatch, net, registry>>

\* ------------------------------------------------- helpers of the daemon
EmptyString(s) == s = NULL \/ s = ""

hash_find_channel(st, name) ==
  IF name \in DOMAIN st.channels THEN name ELSE NULL

IsMember(st, source_p, chptr) == source_p \in st.channels[chptr].members

\* source_p->localClient is set for the connections of this server only
MyClient(st, source_p) == source_p \in DOMAIN st.localClient

PrivateChannel(st, chptr) ==
  chptr # NULL /\ "MODE_PRIVATE" \in st.channels[chptr].mode

is_banned(st, chptr, source_p) == source_p \in st.channels[chptr].banned

dlink_list_length(list) == Cardinality(list)

ID(source_p) == source_p

sendto_one_numeric(st, to, numeric, args) ==
  [st EXCEPT !.sent = Append(@, [to |-> to, from |-> me,
                                 numeric |-> numeric, args |-> args])]

sendto_channel_local(st, type, chptr, source_p) ==
  [st EXCEPT !.notices = Append(@, [type |-> type, chptr |-> chptr,
                                    about |-> source_p])]

sendto_server(st, one, caps, nocaps, source_p, chname) ==
  [st EXCEPT !.relayed = Append(@, [one |-> one, caps |-> caps,
                                    nocaps |-> nocaps,
                                    msg |-> <<ID(source_p), "KNOCK", chname>>])]

\* --------------------------------------------------------------- m_knock
\* variant: a rejection returns an error code
knock_reject_fail(st, source_p, numeric, args) ==
  [sendto_one_numeric(st, source_p, numeric, args) EXCEPT !.ret = 0 - 1]

\* variant: the sender's timestamp is written before the checks are done
knock_reject_stamped(st, source_p, numeric, args) ==
  LET s1 == IF source_p \in DOMAIN st.localClient
            THEN [st EXCEPT !.localClient[source_p].last_knock = CurrentTime]
            ELSE st
  IN [sendto_one_numeric(s1, source_p, numeric, args) EXCEPT !.ret = 0]

\* sendto_one_numeric(...); return 0;
knock_reject(st, source_p, numeric, args) ==
  [sendto_one_numeric(st, source_p, numeric, args) EXCEPT !.ret = 0]

\* variant: a channel counts as full only above its limit
knock_closed_gt(st, chptr) ==
  LET ch == st.channels[chptr] IN
    \/ "MODE_INVITEONLY" \in ch.mode
    \/ ch.key # ""
    \/ (ch.limit # 0 /\ dlink_list_length(ch.members) > ch.limit)

\* the channel is invite-only, keyed or full
knock_closed(st, chptr) ==
  LET ch == st.channels[chptr] IN
    \/ "MODE_INVITEONLY" \in ch.mode
    \/ ch.key # ""
    \/ (ch.limit # 0 /\ dlink_list_length(ch.members) >= ch.limit)

\* variant: the per-user test reads the per-channel delay
knock_flood_user_chdelay(st, source_p) ==
  st.localClient[source_p].last_knock + ConfigChannel.knock_delay_channel > CurrentTime

\* variant: the per-user test is not strict
knock_flood_user_ge(st, source_p) ==
  st.localClient[source_p].last_knock + ConfigChannel.knock_delay >= CurrentTime

knock_flood_user(st, source_p) ==
  st.localClient[source_p].last_knock + ConfigChannel.knock_delay > CurrentTime

\* variant: the per-channel test reads the per-user delay
knock_flood_channel_udelay(st, chptr) ==
  st.channels[chptr].last_knock + ConfigChannel.knock_delay > CurrentTime

\* variant: the per-channel test is not strict
knock_flood_channel_ge(st, chptr) ==
  st.channels[chptr].last_knock + ConfigChannel.knock_delay_channel >= CurrentTime

knock_flood_channel(st, chptr) ==
  st.channels[chptr].last_knock + ConfigChannel.knock_delay_channel > CurrentTime

\* variant: the time of the next allowed knock is stored
knock_ack_next(st, source_p, chptr) ==
  sendto_one_numeric(
    [st EXCEPT !.localClient[source_p].last_knock =
                 CurrentTime + ConfigChannel.knock_delay],
    source_p, "RPL_KNOCKDLVR", <<chptr>>)

\* source_p->localClient->last_knock = CurrentTime; RPL_KNOCKDLVR
knock_ack(st, source_p, chptr) ==
  sendto_one_numeric(
    [st EXCEPT !.localClient[source_p].last_knock = CurrentTime],
    source_p, "RPL_KNOCKDLVR", <<chptr>>)

\* variant: nothing is sent to the other servers
knock_deliver_norelay(st, client_p, source_p, chptr) ==
  LET s1 == [st EXCEPT !.channels[chptr].last_knock = CurrentTime]
      s2 == sendto_channel_local(s1, "CHFL_CHANOP", chptr, source_p)
  IN [s2 EXCEPT !.ret = 0]

\* variant: RPL_KNOCKDLVR is sent after the MyClient block, to every sender
knock_deliver_acked(st, client_p, source_p, chptr) ==
  LET s0 == sendto_one_numeric(st, source_p, "RPL_KNOCKDLVR", <<chptr>>)
      s1 == [s0 EXCEPT !.channels[chptr].last_knock = CurrentTime]
      s2 == sendto_channel_local(s1, "CHFL_CHANOP", chptr, source_p)
      s3 == sendto_server(s2, client_p, "CAP_KNOCK", "NOCAPS", source_p, chptr)
  IN [s3 EXCEPT !.ret = 0]

\* variant: no link is excluded from the propagation
knock_deliver_noexclude(st, client_p, source_p, chptr) ==
  LET s1 == [st EXCEPT !.channels[chptr].last_knock = CurrentTime]
      s2 == sendto_channel_local(s1, "CHFL_CHANOP", chptr, source_p)
      s3 == sendto_server(s2, NULL, "CAP_KNOCK", "NOCAPS", source_p, chptr)
  IN [s3 EXCEPT !.ret = 0]

\* the tail every accepted knock runs
knock_deliver(st, client_p, source_p, chptr) ==
  LET s1 == [st EXCEPT !.channels[chptr].last_knock = CurrentTime]
      s2 == sendto_channel_local(s1, "CHFL_CHANOP", chptr, source_p)
      s3 == sendto_server(s2, client_p, "CAP_KNOCK", "NOCAPS", source_p, chptr)
  IN [s3 EXCEPT !.ret = 0]

\* variant: the private, ban and per-channel tests are made for every sender
knock_checked_all(st, client_p, source_p, chptr) ==
  IF PrivateChannel(st, chptr) \/ is_banned(st, chptr, source_p)
  THEN knock_reject(st, source_p, "ERR_CANNOTSENDTOCHAN", <<chptr>>)
  ELSE IF MyClient(st, source_p) /\ knock_flood_user(st, source_p)
  THEN knock_reject(st, source_p, "ERR_TOOMANYKNOCK", <<chptr, "user">>)
  ELSE IF knock_flood_channel(st, chptr)
  THEN knock_reject(st, source_p, "ERR_TOOMANYKNOCK", <<chptr, "channel">>)
  ELSE IF MyClient(st, source_p)
  THEN knock_deliver(knock_ack(st, source_p, chptr), client_p, source_p, chptr)
  ELSE knock_deliver(st, client_p, source_p, chptr)

\* variant: the per-channel limit is tested before the per-user limit
knock_checked_chfirst(st, client_p, source_p, chptr) ==
  IF MyClient(st, source_p)
  THEN IF PrivateChannel(st, chptr) \/ is_banned(st, chptr, source_p)
       THEN knock_reject(st, source_p, "ERR_CANNOTSENDTOCHAN", <<chptr>>)
       ELSE IF knock_flood_channel(st, chptr)
       THEN knock_reject(st, source_p, "ERR_TOOMANYKNOCK", <<chptr, "channel">>)
       ELSE IF knock_flood_user(st, source_p)
       THEN knock_reject(st, source_p, "ERR_TOOMANYKNOCK", <<chptr, "user">>)
       ELSE knock_deliver(knock_ack(st, source_p, chptr),
                          client_p, source_p, chptr)
  ELSE knock_deliver(st, client_p, source_p, chptr)

\* if (MyClient(source_p)) { ... } and what follows it
knock_checked(st, client_p, source_p, chptr) ==
  IF MyClient(st, source_p)
  THEN IF PrivateChannel(st, chptr) \/ is_banned(st, chptr, source_p)
       THEN knock_reject(st, source_p, "ERR_CANNOTSENDTOCHAN", <<chptr>>)
       ELSE IF knock_flood_user(st, source_p)
       THEN knock_reject(st, source_p, "ERR_TOOMANYKNOCK", <<chptr, "user">>)
       ELSE IF knock_flood_channel(st, chptr)
       THEN knock_reject(st, source_p, "ERR_TOOMANYKNOCK", <<chptr, "channel">>)
       ELSE knock_deliver(knock_ack(st, source_p, chptr),
                          client_p, source_p, chptr)
  ELSE knock_deliver(st, client_p, source_p, chptr)

\* variant: the closed test is made before the membership test
m_knock_swapped(st, client_p, source_p, parv1) ==
  IF EmptyString(parv1)
  THEN knock_reject(st, source_p, "ERR_NEEDMOREPARAMS", <<"KNOCK">>)
  ELSE LET chptr == hash_find_channel(st, parv1) IN
    IF chptr = NULL
    THEN knock_reject(st, source_p, "ERR_NOSUCHCHANNEL", <<parv1>>)
    ELSE IF ~knock_closed(st, chptr)
    THEN knock_reject(st, source_p, "ERR_CHANOPEN", <<chptr>>)
    ELSE IF IsMember(st, source_p, chptr)
    THEN knock_reject(st, source_p, "ERR_KNOCKONCHAN", <<chptr>>)
    ELSE knock_checked(st, client_p, source_p, chptr)

m_knock(st, client_p, source_p, parv1) ==
  IF EmptyString(parv1)
  THEN knock_reject(st, source_p, "ERR_NEEDMOREPARAMS", <<"KNOCK">>)
  ELSE LET chptr == hash_find_channel(st, parv1) IN
    IF chptr = NULL
    THEN knock_reject(st, source_p, "ERR_NOSUCHCHANNEL", <<parv1>>)
    ELSE IF IsMember(st, source_p, chptr)
    THEN knock_reject(st, source_p, "ERR_KNOCKONCHAN", <<chptr>>)
    ELSE IF ~knock_closed(st, chptr)
    THEN knock_reject(st, source_p, "ERR_CHANOPEN", <<chptr>>)
    ELSE knock_checked(st, client_p, source_p, chptr)

\* --------------------------------------------------------------- actions
\* the link a message of source_p arrives on
from(source_p) == IF source_p \in LocalClients THEN source_p ELSE Uplink

Numerics(msgs, to) == {msgs[i].numeric : i \in {j \in DOMAIN msgs : msgs[j].to = to}}

\* m_knock runs on the state of this server.
Invoke(client_p, source_p, parv1) ==
  LET st0 == [localClient |-> localClient, channels |-> channels,
              sent |-> <<>>, notices |-> <<>>, relayed |-> <<>>, ret |-> NoRet]
      st == m_knock(st0, client_p, source_p, parv1)
  IN /\ localClient' = st.localClient
     /\ channels' = st.channels
     /\ sent' = st.sent
     /\ notices' = st.notices
     /\ relayed' = st.relayed
     /\ ret' = st.ret
     /\ call' = [client_p |-> client_p, source_p |-> source_p, parv1 |-> parv1]
     /\ pre' = [localClient |-> localClient, channels |-> channels, hist |-> hist]
     /\ hist' = [user |-> [u \in Clients |->
                    IF "RPL_KNOCKDLVR" \in Numerics(st.sent, u)
                    THEN CurrentTime ELSE hist.user[u]],
                 chan |-> [c \in ChanNames |->
                    IF \E i \in DOMAIN st.notices : st.notices[i].chptr = c
                    THEN CurrentTime ELSE hist.chan[c]]]
     /\ UNCHANGED <<CurrentTime, ConfigChannel>>

\* One KNOCK message of a registered connection is parsed and handled.
Knock(client_p, source_p, parv1) ==
  /\ Invoke(client_p, source_p, parv1)
  /\ UNCHANGED <<dispatch, net, registry>>

Recv == \E source_p \in Clients, parv1 \in Params :
          Knock(from(source_p), source_p, parv1)

\* The clock advances between two messages; what the previous invocation
\* sent has left the send queues by then.
Tick ==
  /\ CurrentTime < MaxTime
  /\ CurrentTime' = CurrentTime + 1
  /\ call' = [client_p |-> NULL, source_p |-> NULL, parv1 |-> ""]
  /\ pre' = [localClient |-> localClient, channels |-> channels, hist |-> hist]
  /\ sent' = <<>> /\ notices' = <<>> /\ relayed' = <<>>
  /\ ret' = NoRet
  /\ UNCHANGED <<ConfigChannel, channels, localClient, hist>>
  /\ UNCHANGED <<dispatch, net, registry>>

NoCall == [client_p |-> NULL, source_p |-> NULL, parv1 |-> ""]

NoHist == [user |-> [u \in Clients |-> NoTime], chan |-> [c \in ChanNames |-> NoTime]]

Delays == [knock_delay : 0..MaxDelay, knock_delay_channel : 0..MaxDelay]

Channel(times) ==
  [mode : SUBSET ModeFlags, key : Keys, limit : 0..MaxLimit,
   members : SUBSET Clients, banned : SUBSET Clients, last_knock : times]

\* the channels of the run: closed and empty, or also private with a local
\* member
StartChannels ==
  {ch \in Channel({0}) :
     /\ ch.key = "" /\ ch.limit = 0 /\ ch.banned = {}
     /\ \/ ch.mode = {"MODE_INVITEONLY"} /\ ch.members = {}
        \/ ch.mode = ModeFlags /\ ch.members = {"u2"}}

\* the clock is far past every delay when the server starts
StartTime == MaxDelay

\* nothing parsed yet
NoDispatch == [status |-> NULL, handler |-> NULL]

\* this server alone
NoNet == [links |-> {}]

\* the tables are not looked at
NoRegistry == [loaded |-> FALSE]

\* no invocation of m_knock yet
InitCall ==
  /\ call = NoCall
  /\ sent = <<>> /\ notices = <<>> /\ relayed = <<>>
  /\ ret = NoRet
  /\ hist = NoHist
  /\ pre = [localClient |-> localClient, channels |-> channels, hist |-> hist]

InitCommon ==
  /\ dispatch = NoDispatch
  /\ net = NoNet
  /\ registry = NoRegistry
  /\ InitCall

Init ==
  /\ CurrentTime = StartTime
  /\ ConfigChannel \in Delays
  /\ channels \in [ChanNames -> StartChannels]
  /\ localClient = [u \in LocalClients |-> [last_knock |-> 0]]
  /\ InitCommon

Next == Recv \/ Tick

Spec == Init /\ [][Next]_vars

\* ------------------------------------------- one invocation, any state
OnceSources == {"u1", "r1"}
OnceParams == {"", "#a", "#none"}

\* a channel nobody knocks on
Bystander ==
  [mode |-> {"MODE_INVITEONLY"}, key |-> "", limit |-> 0,
   members |-> {}, banned |-> {}, last_knock |-> 0]

InitAny ==
  /\ CurrentTime \in 0..OnceMaxTime
  /\ ConfigChannel \in Delays
  /\ \E ch \in Channel(0..CurrentTime) :
       /\ ch.banned \subseteq OnceSources
       /\ channels = [c \in ChanNames |-> IF c = "#a" THEN ch ELSE Bystander]
  /\ \E t \in 0..CurrentTime :
       localClient = [u \in LocalClients |->
                        [last_knock |-> IF u = "u1" THEN t ELSE 0]]
  /\ InitCommon

RecvOnce ==
  /\ call = NoCall
  /\ \E source_p \in OnceSources, parv1 \in OnceParams :
       Knock(from(source_p), source_p, parv1)

NextOnce == RecvOnce

SpecOnce == InitAny /\ [][NextOnce]_vars

\* ------------------------------------ a sender who keeps knocking
RetryUser == "u1"
RetryChan == "#a"

\* channels RetryUser may knock on: invite-only, keyed, or full
RetryChannels(t) ==
  {ch \in Channel({t}) :
     /\ ch.banned = {} /\ "MODE_PRIVATE" \notin ch.mode
     /\ \/ ch.mode = {"MODE_INVITEONLY"} /\ ch.key = "" /\ ch.limit = 0
             /\ ch.members = {}
        \/ ch.mode = {} /\ ch.key = "k" /\ ch.limit = 0 /\ ch.members = {}
        \/ ch.mode = {} /\ ch.key = "" /\ ch.limit = 1
             /\ ch.members = {"u2"}}

\* Both the sender and the channel have been knocked at or before the
\* start, and the clock can reach the end of both intervals.
InitRetry ==
  /\ CurrentTime = StartTime
  /\ ConfigChannel \in Delays
  /\ \E tu \in 0..StartTime, tc \in 0..StartTime :
       /\ tu + ConfigChannel.knock_delay <= MaxTime
       /\ tc + ConfigChannel.knock_delay_channel <= MaxTime
       /\ \E ch \in RetryChannels(tc) :
            channels = [c \in ChanNames |->
                          IF c = RetryChan THEN ch ELSE Bystander]
       /\ localClient = [u \in LocalClients |->
                           [last_knock |-> IF u = RetryUser THEN tu ELSE 0]]
  /\ InitCommon

\* RetryUser knocks on RetryChan again.
Retry == Knock(from(RetryUser), RetryUser, RetryChan)

\* A remote client knocks on another channel.
Elsewhere ==
  \E c \in ChanNames \ {RetryChan} : Knock(Uplink, "r1", c)

NextRetry == Retry \/ Elsewhere \/ Tick

\* the clock keeps advancing and the sender keeps retrying
SpecRetry ==
  InitRetry /\ [][NextRetry]_vars /\ WF_vars(Tick) /\ WF_vars(Retry)

\* ------------------------------------------- a network of servers
MaxHandled == 2

NetServers == {"s1", "s2", "s3", "s4"}

AllLinks == {l \in SUBSET NetServers : Cardinality(l) = 2}

RECURSIVE Acyclic(_)
\* a set of links without a cycle: some end of some link is a leaf, and
\* the rest is acyclic
Acyclic(L) ==
  \/ L = {}
  \/ \E e \in L : /\ \E n \in e : \A f \in L \ {e} : n \notin f
                  /\ Acyclic(L \ {e})

Topologies == {L \in SUBSET AllLinks : Acyclic(L)}

\* the servers directly linked to s that sendto_server sends to: all but
\* the link named by one, with the capabilities asked for
sendto_server_links(s, rec) ==
  {t \in NetServers :
     /\ {s, t} \in net.links
     /\ t # rec.one
     /\ rec.caps = "CAP_KNOCK" => t \in net.caps}

\* The server s runs m_knock for the KNOCK that reached it over client_p.
NetHandle(s, client_p) ==
  LET st0 == [localClient |-> net.localClient[s],
              channels |-> net.channels[s],
              sent |-> <<>>, notices |-> <<>>, relayed |-> <<>>, ret |-> NoRet]
      st == m_knock(st0, client_p, RetryUser, RetryChan)
      out == UNION {sendto_server_links(s, st.relayed[i]) :
                      i \in DOMAIN st.relayed}
      acked == {i \in DOMAIN st.sent : st.sent[i].numeric = "RPL_KNOCKDLVR"}
  IN /\ net.handled[s] < MaxHandled
     /\ net' = [net EXCEPT
          !.localClient[s] = st.localClient,
          !.channels[s] = st.channels,
          !.handled[s] = @ + 1,
          !.arrived[s] = client_p,
          !.relayed[s] = st.relayed,
          !.opnotices[s] = @ + Len(st.notices),
          !.acks[s] = @ + Cardinality(acked),
          !.inflight = (@ \ {[from |-> client_p, to |-> s]})
                         \cup {[from |-> s, to |-> t] : t \in out}]
     /\ UNCHANGED <<CurrentTime, ConfigChannel, channels, localClient, call,
                    pre, sent, notices, relayed, ret, hist, dispatch,
                    registry>>

\* the sender's own server handles the KNOCK of its client
NetKnock ==
  \E msg \in net.inflight :
    msg.from = RetryUser /\ NetHandle(msg.to, msg.from)

\* a server handles the KNOCK a linked server sent it
NetRelay ==
  \E msg \in net.inflight :
    msg.from \in NetServers /\ NetHandle(msg.to, msg.from)

\* Every server holds the same closed channel; the sender is a client of
\* one server, which has the KNOCK capability as it runs this module.
InitNet ==
  /\ CurrentTime = StartTime
  /\ ConfigChannel = [knock_delay |-> MaxDelay, knock_delay_channel |-> MaxDelay]
  /\ channels = [c \in ChanNames |-> Bystander]
  /\ localClient = [u \in LocalClients |-> [last_knock |-> 0]]
  /\ dispatch = NoDispatch
  /\ registry = NoRegistry
  /\ InitCall
  /\ \E links \in Topologies, caps \in SUBSET NetServers, home \in NetServers,
        ch \in RetryChannels(0), tu \in 0..StartTime :
       /\ home \in caps
       /\ net = [links |-> links, caps |-> caps, home |-> home,
                 channels |-> [s \in NetServers |->
                    [c \in ChanNames |-> IF c = RetryChan THEN ch ELSE Bystander]],
                 localClient |-> [s \in NetServers |->
                    [u \in (IF s = home THEN LocalClients ELSE {}) |->
                       [last_knock |-> IF u = RetryUser THEN tu ELSE 0]]],
                 inflight |-> {[from |-> RetryUser, to |-> home]},
                 handled |-> [s \in NetServers |-> 0],
                 arrived |-> [s \in NetServers |-> NULL],
                 relayed |-> [s \in NetServers |-> <<>>],
                 opnotices |-> [s \in NetServers |-> 0],
                 acks |-> [s \in NetServers |-> 0]]

NextNet == NetKnock \/ NetRelay

SpecNet == InitNet /\ [][NextNet]_vars

\* ------------------------------------------------- the parser's dispatch
\* the connection states the parser tells apart, in the order of the
\* handlers of a struct Message
HandlerSlots ==
  <<"UNREGISTERED_HANDLER", "CLIENT_HANDLER", "SERVER_HANDLER",
    "ENCAP_HANDLER", "OPER_HANDLER", "DUMMY_HANDLER">>

\* variant: KNOCK arriving as ENCAP is handled like KNOCK from a server
knock_msgtab_encap ==
  [cmd |-> "KNOCK",
   handlers |-> <<"m_unregistered", "m_knock", "m_knock", "m_knock",
                  "m_knock", "m_ignore">>]

knock_msgtab ==
  [cmd |-> "KNOCK",
   handlers |-> <<"m_unregistered", "m_knock", "m_knock", "m_ignore",
                  "m_knock", "m_ignore">>]

Slot(status) == CHOOSE i \in DOMAIN HandlerSlots : HandlerSlots[i] = status

\* a connection that has not registered yet
Unregistered == {"x1"}

\* who can send a KNOCK that is parsed with this status
Senders(status) ==
  CASE status = "UNREGISTERED_HANDLER" -> Unregistered
    [] status \in {"CLIENT_HANDLER", "OPER_HANDLER"} -> LocalClients
    [] OTHER -> RemoteClients

\* the connection has to register first
m_unregistered(st, client_p) ==
  [sendto_one_numeric(st, client_p, "ERR_NOTREGISTERED", <<>>) EXCEPT !.ret = 0]

m_ignore(st) == [st EXCEPT !.ret = 0]

\* The parser looks KNOCK up and calls the handler of the connection's
\* status.
Parse(status, source_p, parv1) ==
  LET handler == knock_msgtab.handlers[Slot(status)]
      client_p == IF source_p \in RemoteClients THEN Uplink ELSE source_p
      st0 == [localClient |-> localClient, channels |-> channels,
              sent |-> <<>>, notices |-> <<>>, relayed |-> <<>>, ret |-> NoRet]
      st == IF handler = "m_unregistered"
            THEN m_unregistered(st0, client_p) ELSE m_ignore(st0)
  IN /\ dispatch' = [status |-> status, handler |-> handler]
     /\ UNCHANGED <<net, registry>>
     /\ IF handler = "m_knock"
        THEN Invoke(client_p, source_p, parv1)
        ELSE /\ localClient' = st.localClient
             /\ channels' = st.channels
             /\ sent' = st.sent
             /\ notices' = st.notices
             /\ relayed' = st.relayed
             /\ ret' = st.ret
             /\ call' = NoCall
             /\ pre' = [localClient |-> localClient, channels |-> channels,
                        hist |-> hist]
             /\ UNCHANGED <<CurrentTime, ConfigChannel, hist>>

Dispatch ==
  \E i \in DOMAIN HandlerSlots :
    \E source_p \in Senders(HandlerSlots[i]), parv1 \in Params :
      Parse(HandlerSlots[i], source_p, parv1)

NextDispatch == Dispatch

SpecDispatch == Init /\ [][NextDispatch]_vars

\* ------------------------------------------------ loading the module
MaxCycles == 2

\* what other modules and the core have registered
OtherCmds == {"JOIN", "INVITE"}
OtherCaps == {<<>>, <<"QS">>, <<"EX">>, <<"QS", "EX">>, <<"EX", "QS">>}
OtherSupport ==
  {<<>>, <<"CHANTYPES">>, <<"INVEX">>, <<"CHANTYPES", "INVEX">>,
   <<"INVEX", "CHANTYPES">>}

Without(list, name) ==
  LET keep(e) == e.name # name IN SelectSeq(list, keep)

mod_add_cmd(reg, msg) == [reg EXCEPT !.cmds = @ \cup {msg.cmd}]

mod_del_cmd(reg, msg) == [reg EXCEPT !.cmds = @ \ {msg.cmd}]

add_capability(reg, name, cap, add_to_default) ==
  [reg EXCEPT !.caps = <<[name |-> name, cap |-> cap,
                          default |-> add_to_default]>> \o @]

delete_capability(reg, name) == [reg EXCEPT !.caps = Without(@, name)]

add_isupport(reg, name, options, n) ==
  [reg EXCEPT !.isupport = Append(Without(@, name),
                                  [name |-> name, options |-> options, n |-> n])]

delete_isupport(reg, name) == [reg EXCEPT !.isupport = Without(@, name)]

module_init(reg) ==
  LET r1 == mod_add_cmd(reg, knock_msgtab)
      r2 == add_capability(r1, "KNOCK", "CAP_KNOCK", 1)
  IN add_isupport(r2, "KNOCK", NULL, 0 - 1)

\* variant: the ISUPPORT token is left behind
module_exit_keepsupport(reg) ==
  LET r1 == mod_del_cmd(reg, knock_msgtab)
  IN delete_capability(r1, "KNOCK")

module_exit(reg) ==
  LET r1 == mod_del_cmd(reg, knock_msgtab)
      r2 == delete_capability(r1, "KNOCK")
  IN delete_isupport(r2, "KNOCK")

Tables(reg) == [cmds |-> reg.cmds, caps |-> reg.caps, isupport |-> reg.isupport]

\* the module is loaded
ModuleInit ==
  /\ ~registry.loaded
  /\ registry.cycles < MaxCycles
  /\ registry' = [module_init(registry) EXCEPT !.loaded = TRUE]
  /\ UNCHANGED <<CurrentTime, ConfigChannel, channels, localClient, call,
                 pre, sent, notices, relayed, ret, hist, dispatch, net>>

\* the module is unloaded
ModuleExit ==
  /\ registry.loaded
  /\ registry' = [module_exit(registry) EXCEPT !.loaded = FALSE,
                                               !.cycles = @ + 1]
  /\ UNCHANGED <<CurrentTime, ConfigChannel, channels, localClient, call,
                 pre, sent, notices, relayed, ret, hist, dispatch, net>>

InitModule ==
  /\ CurrentTime = StartTime
  /\ ConfigChannel = [knock_delay |-> MaxDelay, knock_delay_channel |-> MaxDelay]
  /\ channels = [c \in ChanNames |-> Bystander]
  /\ localClient = [u \in LocalClients |-> [last_knock |-> 0]]
  /\ dispatch = NoDispatch
  /\ net = NoNet
  /\ InitCall
  /\ \E cmds \in SUBSET OtherCmds, caps \in OtherCaps, sup \in OtherSupport :
       LET tables ==
             [cmds |-> cmds,
              caps |-> [i \in DOMAIN caps |->
                          [name |-> caps[i], cap |-> "CAP_" \o caps[i],
                           default |-> 1]],
              isupport |-> [i \in DOMAIN sup |->
                              [name |-> sup[i], options |-> NULL, n |-> 0 - 1]]]
       IN registry = [loaded |-> FALSE, cycles |-> 0, base |-> tables,
                      cmds |-> tables.cmds, caps |-> tables.caps,
                      isupport |-> tables.isupport]

NextModule == ModuleInit \/ ModuleExit

SpecModule == InitModule /\ [][NextModule]_vars

\* ------------------------------------------------- the latest invocation
Called == call.source_p # NULL

ErrNumerics ==
  {"ERR_NEEDMOREPARAMS", "ERR_NOSUCHCHANNEL", "ERR_KNOCKONCHAN",
   "ERR_CHANOPEN", "ERR_CANNOTSENDTOCHAN", "ERR_TOOMANYKNOCK"}

SentNumerics == [i \in DOMAIN sent |-> sent[i].numeric]

Errors == {i \in DOMAIN sent : sent[i].numeric \in ErrNumerics}

Rejected == Called /\ Errors # {}

Acked == Called /\ \E i \in DOMAIN sent : sent[i].numeric = "RPL_KNOCKDLVR"

Local == call.source_p \in LocalClients

\* the channel named by the parameter, as the invocation found it
ChanExists == call.parv1 \in DOMAIN pre.channels

target == pre.channels[call.parv1]

ClosedBefore ==
  \/ "MODE_INVITEONLY" \in target.mode
  \/ target.key # ""
  \/ (target.limit # 0 /\ Cardinality(target.members) >= target.limit)

UserTooSoon ==
  pre.localClient[call.source_p].last_knock + ConfigChannel.knock_delay > CurrentTime

ChannelTooSoon ==
  target.last_knock + ConfigChannel.knock_delay_channel > CurrentTime

\* check k of the handler fails on the state the invocation found
Fails(k) ==
  CASE k = 1 -> call.parv1 = ""
    [] k = 2 -> ~ChanExists
    [] k = 3 -> ChanExists /\ call.source_p \in target.members
    [] k = 4 -> ChanExists /\ ~ClosedBefore
    [] k = 5 -> ChanExists /\ Local /\
                 ("MODE_PRIVATE" \in target.mode \/ call.source_p \in target.banned)
    [] k = 6 -> ChanExists /\ Local /\ (UserTooSoon \/ ChannelTooSoon)

FailingChecks == {k \in 1..6 : Fails(k)}

CheckNumeric ==
  <<"ERR_NEEDMOREPARAMS", "ERR_NOSUCHCHANNEL", "ERR_KNOCKONCHAN",
    "ERR_CHANOPEN", "ERR_CANNOTSENDTOCHAN", "ERR_TOOMANYKNOCK">>

Lowest(S) == CHOOSE k \in S : \A j \in S : k <= j

\* ------------------------------------------------------------- claims
\* C1: the checks are made in a fixed order and the only reply of a
\* rejected KNOCK is the numeric of the lowest-numbered failing check;
\* when no check fails no error numeric is sent.
C1_FirstFailingCheck ==
  Called =>
    IF FailingChecks = {}
    THEN Errors = {}
    ELSE SentNumerics = <<CheckNumeric[Lowest(FailingChecks)]>>

\* a member of an open channel who is also banned and rate-limited is told
\* ERR_KNOCKONCHAN
C1_Witness ==
  /\ Called
  /\ {3, 4, 5, 6} \subseteq FailingChecks
  /\ SentNumerics = <<"ERR_KNOCKONCHAN">>

\* C2: a KNOCK answered with an error numeric changes no last_knock of any
\* client or channel, notifies no operator, sends no RPL_KNOCKDLVR and
\* propagates nothing.
C2_RejectNoEffect ==
  Rejected =>
    /\ localClient = pre.localClient
    /\ channels = pre.channels
    /\ notices = <<>>
    /\ relayed = <<>>
    /\ ~Acked

\* a local knock rejected by the last check, the per-channel limit, at a
\* time later than both timestamps
C2_Witness ==
  /\ Rejected
  /\ sent[1].numeric = "ERR_TOOMANYKNOCK" /\ sent[1].args[2] = "channel"
  /\ target.last_knock < CurrentTime
  /\ pre.localClient[call.source_p].last_knock < CurrentTime

\* the reply ERR_TOOMANYKNOCK with the given reason, to the sender
TooManyKnock(reason) ==
  <<[to |-> call.source_p, from |-> me, numeric |-> "ERR_TOOMANYKNOCK",
     args |-> <<call.parv1, reason>>]>>

\* checks 1 to 5 pass on the state the invocation found
EarlierChecksPass == FailingChecks \cap (1..5) = {}

\* C3: with a non-decreasing clock, an accepted (RPL_KNOCKDLVR) knock of a
\* local user comes at least knock_delay after that user's previous
\* accepted knock, whatever the channels; and a local knock that passes
\* the earlier checks while last_knock + knock_delay > CurrentTime is
\* answered ERR_TOOMANYKNOCK "user".
C3_UserRateLimit ==
  /\ (Acked /\ pre.hist.user[call.source_p] # NoTime) =>
       CurrentTime - pre.hist.user[call.source_p] >= ConfigChannel.knock_delay
  /\ (Called /\ Local /\ EarlierChecksPass /\ UserTooSoon) =>
       sent = TooManyKnock("user")

\* a second accepted knock of a user, exactly knock_delay > 0 after the
\* first, on a channel nobody had knocked on (so the first was elsewhere)
C3_Witness ==
  /\ Acked
  /\ ConfigChannel.knock_delay > 0
  /\ pre.hist.user[call.source_p] # NoTime
  /\ CurrentTime - pre.hist.user[call.source_p] = ConfigChannel.knock_delay
  /\ pre.hist.chan[call.parv1] = NoTime

\* a knock of another local user on the same channel was accepted at this
\* very CurrentTime
OtherLocalJustKnockedHere ==
  /\ ChanExists
  /\ pre.hist.chan[call.parv1] = CurrentTime
  /\ \A c \in ChanNames \ {call.parv1} : pre.hist.chan[c] # CurrentTime
  /\ \E u \in LocalClients \ {call.source_p} : pre.hist.user[u] = CurrentTime

\* C4 as stated: of two local users knocking on the same closed channel at
\* the same CurrentTime with knock_delay_channel > 0, the one handled
\* second is answered ERR_TOOMANYKNOCK "channel".
C4_SecondToldChannel ==
  (Called /\ Local /\ ConfigChannel.knock_delay_channel > 0
     /\ OtherLocalJustKnockedHere /\ ClosedBefore) =>
    sent = TooManyKnock("channel")

\* C4 (amended): with a non-decreasing clock, an accepted local knock on a
\* channel comes at least knock_delay_channel after the previous accepted
\* knock (local or remote) on that channel; of two local users knocking on
\* the same closed channel at the same CurrentTime with
\* knock_delay_channel > 0 at most one is accepted, and the second is
\* answered ERR_TOOMANYKNOCK "channel" unless an earlier check (up to the
\* per-user limit) rejects it first.
C4_ChannelRateLimit ==
  /\ (Acked /\ pre.hist.chan[call.parv1] # NoTime) =>
       CurrentTime - pre.hist.chan[call.parv1] >= ConfigChannel.knock_delay_channel
  /\ (Called /\ Local /\ ConfigChannel.knock_delay_channel > 0
        /\ OtherLocalJustKnockedHere) =>
       /\ ~Acked
       /\ (EarlierChecksPass /\ ~UserTooSoon) => sent = TooManyKnock("channel")

\* the second of two local users is turned away by the per-channel limit
C4_Witness ==
  /\ Called /\ Local /\ ConfigChannel.knock_delay_channel > 0
  /\ OtherLocalJustKnockedHere
  /\ sent = TooManyKnock("channel")

\* what the delivery of the invocation's knock sends
OpNotice ==
  <<[type |-> "CHFL_CHANOP", chptr |-> call.parv1, about |-> call.source_p]>>

Propagation ==
  <<[one |-> call.client_p, caps |-> "CAP_KNOCK", nocaps |-> "NOCAPS",
     msg |-> <<call.source_p, "KNOCK", call.parv1>>]>>

\* the four checks every sender goes through pass
CommonChecksPass == FailingChecks \cap (1..4) = {}

\* C5: every KNOCK that is not rejected, local or remote, sets the
\* channel's last_knock to CurrentTime, sends one NOTICE to the channel's
\* local operators and one ":<id> KNOCK <channel>" to the servers with
\* the KNOCK capability; a channel timestamp is written, a notice or a
\* propagation is sent only together with the other two.
C5_DeliveryTogether ==
  Called =>
    /\ Errors = {} =>
         /\ ChanExists
         /\ channels[call.parv1].last_knock = CurrentTime
         /\ notices = OpNotice
         /\ relayed = Propagation
    /\ (notices # <<>> \/ relayed # <<>> \/ channels # pre.channels) =>
         /\ Errors = {}
         /\ \A c \in ChanNames \ {call.parv1} : channels[c] = pre.channels[c]

\* a knock relayed from a remote client is delivered and moves the
\* channel's timestamp forward
C5_Witness ==
  /\ Called /\ ~Local /\ Errors = {}
  /\ target.last_knock < CurrentTime
  /\ channels[call.parv1].last_knock = CurrentTime
  /\ relayed = Propagation /\ relayed[1].one = Uplink

\* the eight conditions of C6 on the state the invocation found
LocalAcceptable ==
  /\ call.parv1 # ""
  /\ ChanExists
  /\ call.source_p \notin target.members
  /\ ClosedBefore
  /\ "MODE_PRIVATE" \notin target.mode
  /\ call.source_p \notin target.banned
  /\ pre.localClient[call.source_p].last_knock + ConfigChannel.knock_delay
       <= CurrentTime
  /\ target.last_knock + ConfigChannel.knock_delay_channel <= CurrentTime

\* C6: a KNOCK of a local sender is accepted exactly when the eight
\* conditions hold; then the sender's and the channel's last_knock are
\* CurrentTime and the sender gets RPL_KNOCKDLVR once.
C6_LocalAcceptIff ==
  (Called /\ Local) =>
    /\ Errors = {} <=> LocalAcceptable
    /\ Acked <=> LocalAcceptable
    /\ Acked =>
         /\ localClient[call.source_p].last_knock = CurrentTime
         /\ channels[call.parv1].last_knock = CurrentTime
         /\ sent = <<[to |-> call.source_p, from |-> me,
                      numeric |-> "RPL_KNOCKDLVR", args |-> <<call.parv1>>]>>

\* a local knock accepted exactly at the end of both intervals
C6_Witness ==
  /\ Called /\ Local /\ Acked
  /\ ConfigChannel.knock_delay > 0 /\ ConfigChannel.knock_delay_channel > 0
  /\ pre.localClient[call.source_p].last_knock + ConfigChannel.knock_delay
       = CurrentTime
  /\ target.last_knock + ConfigChannel.knock_delay_channel = CurrentTime

\* C7: a KNOCK of a remote sender that passes the four common checks is
\* accepted whatever the channel's privacy, bans and last_knock; it is
\* never answered ERR_CANNOTSENDTOCHAN, ERR_TOOMANYKNOCK or RPL_KNOCKDLVR
\* and changes no client's last_knock, but sets the channel's.
C7_RemoteSkipsLocalChecks ==
  (Called /\ ~Local) =>
    /\ CommonChecksPass =>
         /\ Errors = {}
         /\ notices = OpNotice
         /\ channels[call.parv1].last_knock = CurrentTime
    /\ \A i \in DOMAIN sent :
         sent[i].numeric \notin
           {"ERR_CANNOTSENDTOCHAN", "ERR_TOOMANYKNOCK", "RPL_KNOCKDLVR"}
    /\ localClient = pre.localClient

\* a banned remote sender's knock on a private channel, within
\* knock_delay_channel of the channel's last knock, is accepted
C7_Witness ==
  /\ Called /\ ~Local /\ ChanExists
  /\ "MODE_PRIVATE" \in target.mode
  /\ call.source_p \in target.banned
  /\ ChannelTooSoon /\ target.last_knock < CurrentTime
  /\ notices = OpNotice
  /\ channels[call.parv1].last_knock = CurrentTime

ToldChanOpen == \E i \in DOMAIN sent : sent[i].numeric = "ERR_CHANOPEN"

\* C8: for an existing channel and a sender who is not a member, the reply
\* is ERR_CHANOPEN exactly when the channel is not invite-only, has an
\* empty key and is not at or above a non-zero limit; a limit of 0 never
\* closes a channel and a member count equal to a non-zero limit does.
C8_ChanOpenIffNotClosed ==
  (Called /\ ChanExists /\ call.source_p \notin target.members) =>
    /\ ToldChanOpen <=>
         ~(\/ "MODE_INVITEONLY" \in target.mode
           \/ target.key # ""
           \/ (target.limit # 0 /\ Cardinality(target.members) >= target.limit))
    /\ ("MODE_INVITEONLY" \notin target.mode /\ target.key = ""
          /\ target.limit = 0) => ToldChanOpen
    /\ (target.limit # 0 /\ Cardinality(target.members) = target.limit)
         => ~ToldChanOpen

\* a channel closed only because its member count equals its limit
C8_Witness ==
  /\ Called /\ ChanExists /\ call.source_p \notin target.members
  /\ "MODE_INVITEONLY" \notin target.mode /\ target.key = ""
  /\ target.limit # 0 /\ Cardinality(target.members) = target.limit
  /\ ~ToldChanOpen

\* C9: an invocation sends at most one numeric, to source_p: a rejected
\* one sends one error numeric and nothing else, an accepted local one
\* sends RPL_KNOCKDLVR alone, an accepted remote one sends no numeric.
C9_AtMostOneNumeric ==
  Called =>
    /\ Len(sent) <= 1
    /\ \A i \in DOMAIN sent : sent[i].to = call.source_p
    /\ FailingChecks # {} =>
         /\ Len(sent) = 1 /\ sent[1].numeric \in ErrNumerics
         /\ notices = <<>> /\ relayed = <<>>
    /\ (FailingChecks = {} /\ Local) => SentNumerics = <<"RPL_KNOCKDLVR">>
    /\ (FailingChecks = {} /\ ~Local) => sent = <<>>

\* an accepted remote knock: delivered, and no numeric at all
C9_Witness ==
  /\ Called /\ ~Local /\ FailingChecks = {}
  /\ sent = <<>> /\ notices = OpNotice /\ relayed = Propagation

ToldTooMany == \E i \in DOMAIN sent : sent[i].numeric = "ERR_TOOMANYKNOCK"

\* C11: the intervals are inclusive: a local knock that passes the earlier
\* checks exactly knock_delay after the sender's last accepted knock and
\* exactly knock_delay_channel after the channel's last knock is accepted
\* (as is any knock at or after both ends); with both delays 0 and a
\* non-decreasing clock no KNOCK is answered ERR_TOOMANYKNOCK.
C11_InclusiveBoundary ==
  /\ (Called /\ Local /\ EarlierChecksPass
        /\ (pre.hist.user[call.source_p] # NoTime =>
              CurrentTime - pre.hist.user[call.source_p]
                >= ConfigChannel.knock_delay)
        /\ (pre.hist.chan[call.parv1] # NoTime =>
              CurrentTime - pre.hist.chan[call.parv1]
                >= ConfigChannel.knock_delay_channel))
       => (Acked /\ ~ToldTooMany)
  /\ (ConfigChannel.knock_delay = 0 /\ ConfigChannel.knock_delay_channel = 0)
       => ~ToldTooMany

\* a knock accepted exactly at the end of both intervals, both non-zero
C11_Witness ==
  /\ Acked
  /\ ConfigChannel.knock_delay > 0 /\ ConfigChannel.knock_delay_channel > 0
  /\ pre.hist.user[call.source_p] # NoTime
  /\ CurrentTime - pre.hist.user[call.source_p] = ConfigChannel.knock_delay
  /\ pre.hist.chan[call.parv1] # NoTime
  /\ CurrentTime - pre.hist.chan[call.parv1] = ConfigChannel.knock_delay_channel

\* channel c would let the sender of the latest invocation in, now
EligibleNow(c) ==
  LET ch == channels[c] IN
    /\ call.source_p \notin ch.members
    /\ "MODE_INVITEONLY" \in ch.mode \/ ch.key # ""
         \/ (ch.limit # 0 /\ Cardinality(ch.members) >= ch.limit)
    /\ "MODE_PRIVATE" \notin ch.mode
    /\ call.source_p \notin ch.banned
    /\ ch.last_knock + ConfigChannel.knock_delay_channel <= CurrentTime

\* C12: a local knock that violates both limits is answered "user"; a
\* knock answered "channel" leaves the sender's last_knock alone, and
\* a knock by the same sender at the same CurrentTime on another eligible
\* channel, handled next, is accepted.
C12_UserBeforeChannel ==
  /\ [](Called /\ Local /\ EarlierChecksPass /\ UserTooSoon /\ ChannelTooSoon
          => sent = TooManyKnock("user"))
  /\ [](sent = TooManyKnock("channel") => localClient = pre.localClient)
  /\ [][(/\ sent = TooManyKnock("channel")
          /\ call'.source_p = call.source_p
          /\ call'.parv1 \in ChanNames \ {call.parv1}
          /\ CurrentTime' = CurrentTime
          /\ EligibleNow(call'.parv1))
         => (sent' = <<[to |-> call.source_p, from |-> me,
                       numeric |-> "RPL_KNOCKDLVR",
                       args |-> <<call'.parv1>>]>>)]_vars

\* a sender turned away by the per-channel limit while another channel is
\* eligible
C12_Witness ==
  /\ sent = TooManyKnock("channel")
  /\ ConfigChannel.knock_delay > 0
  /\ \E c \in ChanNames \ {call.parv1} : EligibleNow(c)

\* C13: with a non-decreasing clock and timestamps that start at or below
\* it, no last_knock of a client or channel exceeds CurrentTime, none
\* decreases, and one that changes becomes CurrentTime.
C13_TimestampsBounded ==
  /\ \A u \in LocalClients :
       /\ localClient[u].last_knock <= CurrentTime
       /\ localClient[u].last_knock >= pre.localClient[u].last_knock
       /\ localClient[u].last_knock # pre.localClient[u].last_knock
            => localClient[u].last_knock = CurrentTime
  /\ \A c \in ChanNames :
       /\ channels[c].last_knock <= CurrentTime
       /\ channels[c].last_knock >= pre.channels[c].last_knock
       /\ channels[c].last_knock # pre.channels[c].last_knock
            => channels[c].last_knock = CurrentTime

\* a second accepted knock of a client: both timestamps move forward from
\* earlier knocks to CurrentTime
C13_Witness ==
  /\ Acked
  /\ pre.hist.user[call.source_p] # NoTime
  /\ pre.localClient[call.source_p].last_knock < CurrentTime
  /\ localClient[call.source_p].last_knock = CurrentTime
  /\ pre.hist.chan[call.parv1] # NoTime
  /\ target.last_knock < CurrentTime
  /\ channels[call.parv1].last_knock = CurrentTime

RetryAccepted ==
  Acked /\ call.source_p = RetryUser /\ call.parv1 = RetryChan

\* C14: a local sender who is not a member of a closed, non-private channel
\* and not banned, and who keeps knocking on it while the clock advances
\* and nobody else's knock on the channel is accepted, is eventually
\* accepted: rejections do not move the timestamps.
C14_EventuallyAccepted == <>RetryAccepted

\* accepted after the clock has advanced to the end of an interval that
\* was still running at the start
C14_Witness ==
  /\ RetryAccepted
  /\ CurrentTime > StartTime
  /\ \/ pre.localClient[RetryUser].last_knock + ConfigChannel.knock_delay
          = CurrentTime
     \/ target.last_knock + ConfigChannel.knock_delay_channel = CurrentTime

NetReached == {s \in NetServers : net.handled[s] > 0}

\* C15: every sendto_server call of an accepted KNOCK names client_p as
\* the excluded link and asks for CAP_KNOCK, so no message travels back
\* over the link the KNOCK arrived on nor to a server without the
\* capability; in an acyclic network with the same channel state on every
\* server, each server handles the KNOCK at most once and notifies its
\* operators at most once, and only the sender's own server sends
\* RPL_KNOCKDLVR and stamps the sender.
C15_PropagatedOnce ==
  /\ \A s \in NetReached : \A i \in DOMAIN net.relayed[s] :
       /\ net.relayed[s][i].one = net.arrived[s]
       /\ net.relayed[s][i].caps = "CAP_KNOCK"
  /\ \A msg \in net.inflight :
       /\ msg.to \in net.caps
       /\ msg.from \in NetServers => msg.to # net.arrived[msg.from]
  /\ \A s \in NetServers :
       /\ net.handled[s] <= 1
       /\ net.opnotices[s] <= 1
       /\ net.acks[s] <= 1
       /\ s # net.home => /\ net.acks[s] = 0
                          /\ DOMAIN net.localClient[s] = {}
       /\ net.acks[s] = 1 =>
            net.localClient[s][RetryUser].last_knock = CurrentTime

\* the KNOCK has reached three servers, each once, and stopped at a linked
\* server without the capability
C15_Witness ==
  /\ net.links # {}
  /\ net.inflight = {}
  /\ Cardinality(NetReached) >= 3
  /\ \A s \in NetReached : net.handled[s] = 1 /\ net.opnotices[s] = 1
  /\ net.acks[net.home] = 1
  /\ \E s \in NetServers \ net.caps, t \in NetReached : {s, t} \in net.links

\* C16: the parser hands a KNOCK of an unregistered connection to
\* m_unregistered and a KNOCK arriving as ENCAP or for the dummy slot to
\* m_ignore; m_knock is then not run, no last_knock changes, no operator
\* notice is sent and nothing is propagated.  m_knock is run exactly for
\* registered clients, servers and operators.
C16_DispatchByStatus ==
  /\ dispatch.status = "UNREGISTERED_HANDLER"
       => dispatch.handler = "m_unregistered"
  /\ dispatch.status \in {"ENCAP_HANDLER", "DUMMY_HANDLER"}
       => dispatch.handler = "m_ignore"
  /\ dispatch.handler = "m_knock"
       <=> dispatch.status \in {"CLIENT_HANDLER", "SERVER_HANDLER",
                                "OPER_HANDLER"}
  /\ dispatch.status \in {"UNREGISTERED_HANDLER", "ENCAP_HANDLER",
                          "DUMMY_HANDLER"}
       => /\ call = NoCall
          /\ channels = pre.channels
          /\ localClient = pre.localClient
          /\ notices = <<>>
          /\ relayed = <<>>

\* a KNOCK arriving as ENCAP is ignored for a channel on which a KNOCK
\* from a registered connection was delivered before
C16_Witness ==
  /\ dispatch.status = "ENCAP_HANDLER"
  /\ dispatch.handler = "m_ignore"
  /\ sent = <<>> /\ ret = 0
  /\ \E c \in ChanNames : hist.chan[c] # NoTime

HasCmd == "KNOCK" \in registry.cmds
HasCap ==
  \E i \in DOMAIN registry.caps :
    registry.caps[i].name = "KNOCK" /\ registry.caps[i].cap = "CAP_KNOCK"
HasSupport == \E i \in DOMAIN registry.isupport : registry.isupport[i].name = "KNOCK"

\* C17: between calls the KNOCK command, the "KNOCK" capability and the
\* "KNOCK" ISUPPORT token are registered all three while the module is
\* loaded and none of them while it is not, and after module_exit the
\* three tables are what they were before the first module_init.
C17_RoundTrip ==
  /\ registry.loaded => HasCmd /\ HasCap /\ HasSupport
  /\ ~registry.loaded =>
       /\ ~HasCmd /\ ~HasCap /\ ~HasSupport
       /\ Tables(registry) = registry.base

\* unloaded again after two loads, other entries in all three tables
C17_Witness ==
  /\ ~registry.loaded
  /\ registry.cycles >= 2
  /\ registry.cmds # {}
  /\ Len(registry.caps) = 2
  /\ Len(registry.isupport) = 2

=============================================================================
